---- MODULE Spec2Model ----
(***************************************************************************)
(* Verification model of the web video editor's server: the relational     *)
(* store (users, projects, media assets, timeline items), the zod input    *)
(* schemas bound to the tRPC procedures, and the entity handlers.          *)
(*                                                                         *)
(* Numbers.  A JavaScript number is modelled as an integer count of        *)
(* 1/10000 (so 1.0 is 10000 and 0.0005 is 5); integer columns             *)
(* (track_number, resolution, ids) are plain integers.  A numeric(p, s)    *)
(* column keeps s decimals: writing a number to it rounds, half away from  *)
(* zero, to a multiple of 10^(4-s).                                        *)
(*                                                                         *)
(* null / undefined.  A nullable value is Null (the empty tuple) or        *)
(* Some(v) (a one-element tuple).  A field that is not provided            *)
(* (undefined) is a field that is not in the DOMAIN of the input record.   *)
(***************************************************************************)
EXTENDS Integers, Sequences, FiniteSets, TLC

VARIABLES
    users,          \* usersTable:         id -> row
    projects,       \* projectsTable:      id -> row
    mediaAssets,    \* mediaAssetsTable:   id -> row
    timelineItems,  \* timelineItemsTable: id -> row
    serial,         \* the next value of each table's serial id sequence
    now,            \* the clock read by new Date() and by defaultNow()
    response,       \* the outcome of the last request: op, input, ok/error, value
    inflight        \* the requests whose handler is between two awaits

vars == <<users, projects, mediaAssets, timelineItems, serial, now, response, inflight>>
store == <<users, projects, mediaAssets, timelineItems, serial>>

(***************************************************************************)
(* Bounds of the model                                                     *)
(***************************************************************************)
\* The timeline_items sequence hands out the ids 1 .. MaxItems, and the clock
\* runs from 0 to MaxClock.
MaxItems == 2
MaxClock == 1

\* The ids the projects and media_assets sequences hand out.
ProjectSerials == {1, 2}
AssetSerials == {1, 2}

(***************************************************************************)
(* Values                                                                  *)
(***************************************************************************)
Null == <<>>
Some(v) == <<v>>
Has(input, f) == f \in DOMAIN input
\* a ?? b on a field of the input
Nullish(input, f) == ~Has(input, f) \/ input[f] = Null

Abs(x) == IF x < 0 THEN -x ELSE x

RECURSIVE Pow10(_)
Pow10(n) == IF n <= 0 THEN 1 ELSE 10 * Pow10(n - 1)

\* Mutant: the column drops the digits beyond its scale.
NumericRound_Truncate(x, col) ==
    (IF x < 0 THEN -1 ELSE 1) * (Abs(x) \div Pow10(4 - col.scale)) * Pow10(4 - col.scale)

\* What a numeric(precision, scale) column holds after x is written to it.
NumericRound(x, col) ==
    LET step == Pow10(4 - col.scale)
        q == (Abs(x) + step \div 2) \div step
    IN  (IF x < 0 THEN -1 ELSE 1) * q * step

\* "numeric field overflow": the rounded value needs more than
\* precision - scale digits before the decimal point.
\* (A column with six or more integer digits holds every number of the model.)
NumericFits(x, col) ==
    \/ col.precision - col.scale > 5
    \/ Abs(NumericRound(x, col)) \div 10000 < Pow10(col.precision - col.scale)

\* Column types of db/schema.ts
DurationCol == [precision |-> 10, scale |-> 3]
FrameRateCol == [precision |-> 5, scale |-> 2]
FileSizeCol == [precision |-> 15, scale |-> 0]
TimeCol == [precision |-> 10, scale |-> 3]
LevelCol == [precision |-> 3, scale |-> 2]
PositionCol == [precision |-> 10, scale |-> 2]
ScaleCol == [precision |-> 5, scale |-> 3]
RotationCol == [precision |-> 6, scale |-> 2]

\* The numeric columns of timeline_items.
TimelineItemNumeric ==
    [start_time |-> TimeCol, end_time |-> TimeCol, media_start_offset |-> TimeCol,
     volume |-> LevelCol, opacity |-> LevelCol,
     position_x |-> PositionCol, position_y |-> PositionCol,
     scale |-> ScaleCol, rotation |-> RotationCol]

TimelineItemNullable == {"volume", "opacity", "position_x", "position_y", "scale", "rotation"}
TimelineItemUpdatable ==
    {"track_number", "start_time", "end_time", "media_start_offset"} \cup TimelineItemNullable
ProjectUpdatable ==
    {"title", "description", "status", "duration", "frame_rate",
     "resolution_width", "resolution_height"}

ProjectStatus == {"draft", "in_progress", "completed", "archived"}
MediaType == {"video", "image", "audio"}

\* A value as the column `col` stores it: NULL stays NULL, a number is rounded.
Stored(v, col) == IF v = Null THEN Null ELSE Some(NumericRound(v[1], col))
StoredFits(v, col) == v = Null \/ NumericFits(v[1], col)

\* Mutant: value || null on the number itself, which takes 0 for null.
ToStringOrNull_Falsy(input, f) ==
    IF Nullish(input, f) \/ input[f] = Some(0) THEN Null ELSE input[f]

\* value?.toString() || null : the text of a number is never empty, so only
\* undefined and null become null, and 0 stays "0".
ToStringOrNull(input, f) == IF Nullish(input, f) THEN Null ELSE input[f]

\* Mutant: the test is on the number, which takes a stored 0 for null.
ParseFloatOrNull_Falsy(column) == IF column = Null \/ column = Some(0) THEN Null ELSE column

\* column ? parseFloat(column) : null : a stored numeric is a non-empty text
\* ("0.00" included), so only NULL becomes null.
ParseFloatOrNull(column) == IF column = Null THEN Null ELSE column

(***************************************************************************)
(* Responses                                                               *)
(***************************************************************************)
NoValue == [id |-> 0]

\* A handler that runs from its first await to its return with no other
\* request in between: it returns `value`.
Reply(op, input, value) ==
    /\ response' = [op |-> op, input |-> input, ok |-> TRUE, error |-> "", value |-> value]
    /\ UNCHANGED inflight

\* A thrown error: the request is rejected and the store is as it was.
Throw(op, input, error) ==
    /\ response' = [op |-> op, input |-> input, ok |-> FALSE, error |-> error,
                    value |-> NoValue]
    /\ UNCHANGED <<store, now, inflight>>

\* The client sessions (browser tabs), and a session that has no project open:
\* the project prop, the timelineItems state and the item its handler received.
Sessions == {"A", "B"}
Closed == [pc |-> "closed", project |-> Null, timelineItems |-> {}, newItem |-> NoValue]

\* A handler that is not running.
Idle == [pc |-> "idle", input |-> NoValue, result |-> "", removed |-> {}]

Init ==
    /\ users = <<>>
    /\ projects = <<>>
    /\ mediaAssets = <<>>
    /\ timelineItems = <<>>
    /\ serial = [users |-> 1, projects |-> 1, media_assets |-> 1, timeline_items |-> 1]
    /\ now = 0
    /\ response = [op |-> "none", input |-> NoValue, ok |-> TRUE, error |-> "",
                   value |-> NoValue]
    /\ inflight = [deleteMediaAsset |-> Idle, createTimelineItem |-> Idle,
                   updateProject |-> Idle,
                   handleAddTimelineItem |-> [s \in Sessions |-> Closed]]

\* Table t with the row r added under its id, and with the rows of ids removed.
Insert(t, r) == [i \in DOMAIN t \cup {r.id} |-> IF i = r.id THEN r ELSE t[i]]
Delete(t, ids) == [i \in DOMAIN t \ ids |-> t[i]]

(***************************************************************************)
(* zod input schemas (server/src/schema.ts), as predicates on the raw      *)
(* input, and the parsed input with the schema's defaults applied          *)
(***************************************************************************)
\* z.number()...nullable().optional() with the range check P
OptionalNullable(raw, f, P(_)) == ~Has(raw, f) \/ raw[f] = Null \/ P(raw[f][1])
\* z.number()...optional() with the range check P
Optional(raw, f, P(_)) == ~Has(raw, f) \/ P(raw[f])

Positive(x) == x > 0
NonNegative(x) == x >= 0
UnitInterval(x) == x >= 0 /\ x <= 10000
AnyNumber(x) == TRUE
NonEmpty(str) == str # ""

\* username: z.string().min(1); email: z.string().email() (the non-empty emails
\* of the model are all well-formed addresses).
createUserInputSchema(raw) == raw.username # "" /\ raw.email # ""

createProjectInputSchema(raw) ==
    /\ raw.title # ""
    /\ Optional(raw, "frame_rate", Positive)
    /\ Optional(raw, "resolution_width", Positive)
    /\ Optional(raw, "resolution_height", Positive)

\* frame_rate, resolution_width and resolution_height default to 30, 1920, 1080.
ParseCreateProject(raw) ==
    [f \in DOMAIN raw \cup {"frame_rate", "resolution_width", "resolution_height"} |->
        IF Has(raw, f) THEN raw[f]
        ELSE IF f = "frame_rate" THEN 300000
        ELSE IF f = "resolution_width" THEN 1920 ELSE 1080]

createMediaAssetInputSchema(raw) ==
    /\ raw.filename # "" /\ raw.original_filename # "" /\ raw.file_path # ""
    /\ raw.mime_type # ""
    /\ raw.file_size > 0
    /\ raw.media_type \in MediaType
    /\ OptionalNullable(raw, "duration", Positive)
    /\ OptionalNullable(raw, "width", Positive)
    /\ OptionalNullable(raw, "height", Positive)

\* Mutant: the schema without its refinement end_time > start_time.
createTimelineItemInputSchema_NoRefine(raw) ==
    /\ raw.track_number >= 0
    /\ raw.start_time >= 0
    /\ raw.end_time > 0
    /\ Optional(raw, "media_start_offset", NonNegative)
    /\ OptionalNullable(raw, "volume", UnitInterval)
    /\ OptionalNullable(raw, "opacity", UnitInterval)
    /\ OptionalNullable(raw, "scale", Positive)

createTimelineItemInputSchema(raw) ==
    /\ raw.track_number >= 0
    /\ raw.start_time >= 0
    /\ raw.end_time > 0
    /\ Optional(raw, "media_start_offset", NonNegative)
    /\ OptionalNullable(raw, "volume", UnitInterval)
    /\ OptionalNullable(raw, "opacity", UnitInterval)
    /\ OptionalNullable(raw, "position_x", AnyNumber)
    /\ OptionalNullable(raw, "position_y", AnyNumber)
    /\ OptionalNullable(raw, "scale", Positive)
    /\ OptionalNullable(raw, "rotation", AnyNumber)
    \* .refine(data => data.end_time > data.start_time)
    /\ raw.end_time > raw.start_time

\* media_start_offset defaults to 0.
ParseCreateTimelineItem(raw) ==
    [f \in DOMAIN raw \cup {"media_start_offset"} |-> IF Has(raw, f) THEN raw[f] ELSE 0]

updateProjectInputSchema(raw) ==
    /\ Optional(raw, "title", NonEmpty)
    /\ ~Has(raw, "status") \/ raw.status \in ProjectStatus
    /\ OptionalNullable(raw, "duration", AnyNumber)
    /\ Optional(raw, "frame_rate", Positive)
    /\ Optional(raw, "resolution_width", Positive)
    /\ Optional(raw, "resolution_height", Positive)

\* Mutant: the schema without its range checks.
updateTimelineItemInputSchema_NoRanges(raw) == TRUE

updateTimelineItemInputSchema(raw) ==
    /\ Optional(raw, "track_number", NonNegative)
    /\ Optional(raw, "start_time", NonNegative)
    /\ Optional(raw, "end_time", Positive)
    /\ Optional(raw, "media_start_offset", NonNegative)
    /\ OptionalNullable(raw, "volume", UnitInterval)
    /\ OptionalNullable(raw, "opacity", UnitInterval)
    /\ OptionalNullable(raw, "position_x", AnyNumber)
    /\ OptionalNullable(raw, "position_y", AnyNumber)
    /\ OptionalNullable(raw, "scale", Positive)
    /\ OptionalNullable(raw, "rotation", AnyNumber)

(***************************************************************************)
(* Store operations: the foreign keys and cascade rules of db/schema.ts    *)
(***************************************************************************)
ItemsOfProject(id) == {i \in DOMAIN timelineItems : timelineItems[i].project_id = id}
ItemsOfAsset(id) == {i \in DOMAIN timelineItems : timelineItems[i].media_asset_id = id}

\* Mutant: the delete of the project does not cascade to its timeline items.
DeleteProjectRow_NoCascade(id) ==
    /\ projects' = Delete(projects, {id})
    /\ timelineItems' = timelineItems

\* DELETE FROM projects WHERE id = ...: timeline_items.project_id is
\* ON DELETE CASCADE.
DeleteProjectRow(id) ==
    /\ projects' = Delete(projects, {id})
    /\ timelineItems' = Delete(timelineItems, ItemsOfProject(id))

\* DELETE FROM media_assets WHERE id = ..., on the timeline items `items` that
\* are left at that point: timeline_items.media_asset_id is ON DELETE CASCADE.
DeleteMediaAssetRow(id, items) ==
    /\ mediaAssets' = Delete(mediaAssets, {id})
    /\ timelineItems' =
           Delete(items, {i \in DOMAIN items : items[i].media_asset_id = id})

NextSerial(table) == [serial EXCEPT ![table] = @ + 1]

(***************************************************************************)
(* Handlers (server/src/handlers)                                          *)
(***************************************************************************)
Ada == [username |-> "ada", email |-> "ada@example.com"]
\* The createUser requests: every pairing of three usernames and three emails.
UserInputs ==
    [username : {"ada", "bob", "cy"},
     email : {"ada@example.com", "bob@example.com", "cy@example.com"}]

\* Mutant: only users.username is unique.
UsersUniqueViolation_UsernameOnly(row) ==
    \E u \in DOMAIN users : users[u].username = row.username

\* users.username and users.email are UNIQUE: an insert of a row whose username
\* or email is that of a stored row is refused.
UsersUniqueViolation(row) ==
    \E u \in DOMAIN users :
        users[u].username = row.username \/ users[u].email = row.email

\* createUser: the handler is to persist the user and to refuse a username or
\* an email that is already taken (users.username and users.email are unique).
createUser(input) ==
    IF UsersUniqueViolation(input)
    THEN Throw("createUser", input, "Conflict")
    ELSE LET row == [id |-> serial.users, username |-> input.username,
                     email |-> input.email, created_at |-> now, updated_at |-> now]
         IN  /\ serial.users <= Cardinality(UserInputs)
             /\ users' = Insert(users, row)
             /\ serial' = NextSerial("users")
             /\ Reply("createUser", input, row)
             /\ UNCHANGED <<projects, mediaAssets, timelineItems, now>>

\* Mutant: status and duration are taken from the input when it carries them.
createProject_StatusFromInput(input) ==
    IF input.user_id \notin DOMAIN users
    THEN Throw("createProject", input, "User does not exist")
    ELSE LET row == [id |-> serial.projects, title |-> input.title,
                     description |-> Null,
                     status |-> IF Has(input, "status") THEN input.status ELSE "draft",
                     duration |-> IF Has(input, "duration") THEN input.duration ELSE Null,
                     frame_rate |-> NumericRound(input.frame_rate, FrameRateCol),
                     resolution_width |-> input.resolution_width,
                     resolution_height |-> input.resolution_height,
                     user_id |-> input.user_id,
                     created_at |-> now, updated_at |-> now]
         IN  /\ serial.projects \in ProjectSerials
             /\ projects' = Insert(projects, row)
             /\ serial' = NextSerial("projects")
             /\ Reply("createProject", input, row)
             /\ UNCHANGED <<users, mediaAssets, timelineItems, now>>

\* Mutant: the user is not looked up before the insert.
createProject_NoUserCheck(input) ==
    LET row == [id |-> serial.projects, title |-> input.title,
                description |-> Null, status |-> "draft", duration |-> Null,
                frame_rate |-> NumericRound(input.frame_rate, FrameRateCol),
                resolution_width |-> input.resolution_width,
                resolution_height |-> input.resolution_height,
                user_id |-> input.user_id,
                created_at |-> now, updated_at |-> now]
    IN  /\ serial.projects \in ProjectSerials
        /\ projects' = Insert(projects, row)
        /\ serial' = NextSerial("projects")
        /\ Reply("createProject", input, row)
        /\ UNCHANGED <<users, mediaAssets, timelineItems, now>>

createProject(input) ==
    IF input.user_id \notin DOMAIN users
    THEN Throw("createProject", input, "User does not exist")
    ELSE IF ~NumericFits(input.frame_rate, FrameRateCol)
    THEN Throw("createProject", input, "numeric field overflow")
    ELSE LET row ==
                 [id |-> serial.projects,
                  title |-> input.title,
                  \* input.description || null
                  description |-> IF Nullish(input, "description")
                                     \/ input.description = Some("")
                                  THEN Null ELSE input.description,
                  status |-> "draft",
                  duration |-> Null,
                  frame_rate |-> NumericRound(input.frame_rate, FrameRateCol),
                  resolution_width |-> input.resolution_width,
                  resolution_height |-> input.resolution_height,
                  user_id |-> input.user_id,
                  created_at |-> now, updated_at |-> now]
         IN  /\ serial.projects \in ProjectSerials
             /\ projects' = Insert(projects, row)
             /\ serial' = NextSerial("projects")
             /\ Reply("createProject", input,
                      [row EXCEPT !.duration = ParseFloatOrNull(row.duration)])
             /\ UNCHANGED <<users, mediaAssets, timelineItems, now>>

\* input.duration ? input.duration.toString() : null, and input.width || null:
\* undefined, null and 0 all become null.
TruthyOrNull(input, f) ==
    IF Nullish(input, f) \/ input[f] = Some(0) THEN Null ELSE input[f]

createMediaAsset(input) ==
    IF input.user_id \notin DOMAIN users
    THEN Throw("createMediaAsset", input, "User does not exist")
    ELSE LET row ==
                 [id |-> serial.media_assets,
                  filename |-> input.filename,
                  original_filename |-> input.original_filename,
                  file_path |-> input.file_path,
                  file_size |-> NumericRound(input.file_size, FileSizeCol),
                  mime_type |-> input.mime_type,
                  media_type |-> input.media_type,
                  duration |-> Stored(TruthyOrNull(input, "duration"), DurationCol),
                  width |-> TruthyOrNull(input, "width"),
                  height |-> TruthyOrNull(input, "height"),
                  user_id |-> input.user_id,
                  created_at |-> now, updated_at |-> now]
         IN  /\ serial.media_assets \in AssetSerials
             /\ mediaAssets' = Insert(mediaAssets, row)
             /\ serial' = NextSerial("media_assets")
             /\ Reply("createMediaAsset", input,
                      [row EXCEPT !.duration = ParseFloatOrNull(row.duration)])
             /\ UNCHANGED <<users, projects, timelineItems, now>>

\* The values createTimelineItem passes to the insert.
TimelineItemValues(input) ==
    [project_id |-> input.project_id,
     media_asset_id |-> input.media_asset_id,
     track_number |-> input.track_number,
     start_time |-> input.start_time,
     end_time |-> input.end_time,
     \* (input.media_start_offset ?? 0).toString()
     media_start_offset |-> IF Has(input, "media_start_offset")
                            THEN input.media_start_offset ELSE 0,
     volume |-> ToStringOrNull(input, "volume"),
     opacity |-> ToStringOrNull(input, "opacity"),
     position_x |-> ToStringOrNull(input, "position_x"),
     position_y |-> ToStringOrNull(input, "position_y"),
     scale |-> ToStringOrNull(input, "scale"),
     rotation |-> ToStringOrNull(input, "rotation")]

\* A value written to column f of timeline_items, as the column stores it.
TimelineItemStored(f, v) ==
    IF f \in TimelineItemNullable THEN Stored(v, TimelineItemNumeric[f])
    ELSE IF f \in DOMAIN TimelineItemNumeric THEN NumericRound(v, TimelineItemNumeric[f])
    ELSE v

TimelineItemFits(f, v) ==
    IF f \in TimelineItemNullable THEN StoredFits(v, TimelineItemNumeric[f])
    ELSE IF f \in DOMAIN TimelineItemNumeric THEN NumericFits(v, TimelineItemNumeric[f])
    ELSE TRUE

\* The row as the handlers return it: every numeric column through parseFloat.
TimelineItemReturned(row) ==
    [f \in DOMAIN row |->
        IF f \in TimelineItemNullable THEN ParseFloatOrNull(row[f]) ELSE row[f]]

\* Mutant: the media asset is not looked up before the insert.
createTimelineItem_NoAssetCheck(input) ==
    IF input.project_id \notin DOMAIN projects
    THEN Throw("createTimelineItem", input, "Project not found")
    ELSE LET values == TimelineItemValues(input)
             row == [f \in DOMAIN values \cup {"id", "created_at", "updated_at"} |->
                         IF f = "id" THEN serial.timeline_items
                         ELSE IF f \in {"created_at", "updated_at"} THEN now
                         ELSE TimelineItemStored(f, values[f])]
         IN  /\ serial.timeline_items <= MaxItems
             /\ timelineItems' = Insert(timelineItems, row)
             /\ serial' = NextSerial("timeline_items")
             /\ Reply("createTimelineItem", input, TimelineItemReturned(row))
             /\ UNCHANGED <<users, projects, mediaAssets, now>>

createTimelineItem(input) ==
    IF input.project_id \notin DOMAIN projects
    THEN Throw("createTimelineItem", input, "Project not found")
    ELSE IF input.media_asset_id \notin DOMAIN mediaAssets
    THEN Throw("createTimelineItem", input, "Media asset not found")
    ELSE LET values == TimelineItemValues(input)
             row == [f \in DOMAIN values \cup {"id", "created_at", "updated_at"} |->
                         IF f = "id" THEN serial.timeline_items
                         ELSE IF f \in {"created_at", "updated_at"} THEN now
                         ELSE TimelineItemStored(f, values[f])]
         IN  IF \E f \in DOMAIN values : ~TimelineItemFits(f, values[f])
             THEN Throw("createTimelineItem", input, "numeric field overflow")
             ELSE /\ serial.timeline_items <= MaxItems
                  /\ timelineItems' = Insert(timelineItems, row)
                  /\ serial' = NextSerial("timeline_items")
                  /\ Reply("createTimelineItem", input, TimelineItemReturned(row))
                  /\ UNCHANGED <<users, projects, mediaAssets, now>>

\* Mutant: the result of the DELETE is not tested for a row.
deleteProject_NoRowCheck(input) ==
    /\ DeleteProjectRow(input.id)
    /\ Reply("deleteProject", input, [success |-> TRUE])
    /\ UNCHANGED <<users, mediaAssets, serial, now>>

\* Mutant: the delete of the project takes every timeline item with it.
deleteProject_AllItems(input) ==
    IF input.id \notin DOMAIN projects
    THEN Throw("deleteProject", input, "Project not found")
    ELSE /\ projects' = Delete(projects, {input.id})
         /\ timelineItems' = <<>>
         /\ Reply("deleteProject", input, [success |-> TRUE])
         /\ UNCHANGED <<users, mediaAssets, serial, now>>

deleteProject(input) ==
    IF input.id \notin DOMAIN projects
    THEN Throw("deleteProject", input, "Project not found")
    ELSE /\ DeleteProjectRow(input.id)
         /\ Reply("deleteProject", input, [success |-> TRUE])
         /\ UNCHANGED <<users, mediaAssets, serial, now>>

\* Mutant: the timeline items are deleted and the asset row is left.
deleteMediaAsset_ItemsOnly(input) ==
    IF input.id \notin DOMAIN mediaAssets
    THEN Throw("deleteMediaAsset", input, "Media asset not found")
    ELSE /\ timelineItems' = Delete(timelineItems, ItemsOfAsset(input.id))
         /\ Reply("deleteMediaAsset", input, [success |-> TRUE])
         /\ UNCHANGED <<users, projects, mediaAssets, serial, now>>

\* Mutant: the asset row is deleted and the timeline items are left.
deleteMediaAsset_AssetOnly(input) ==
    IF input.id \notin DOMAIN mediaAssets
    THEN Throw("deleteMediaAsset", input, "Media asset not found")
    ELSE /\ mediaAssets' = Delete(mediaAssets, {input.id})
         /\ Reply("deleteMediaAsset", input, [success |-> TRUE])
         /\ UNCHANGED <<users, projects, timelineItems, serial, now>>

deleteMediaAsset(input) ==
    IF input.id \notin DOMAIN mediaAssets
    THEN Throw("deleteMediaAsset", input, "Media asset not found")
    ELSE \* delete the timeline items that reference the asset, then the asset
         /\ DeleteMediaAssetRow(input.id, Delete(timelineItems, ItemsOfAsset(input.id)))
         /\ Reply("deleteMediaAsset", input, [success |-> TRUE])
         /\ UNCHANGED <<users, projects, serial, now>>

\* Mutant: the placeholder handler, which reports success and deletes nothing.
deleteTimelineItem_Placeholder(input) ==
    /\ Reply("deleteTimelineItem", input, [success |-> TRUE])
    /\ UNCHANGED <<store, now>>

\* success is (result.rowCount ?? 0) > 0; a missing id is no error.
deleteTimelineItem(input) ==
    /\ timelineItems' = Delete(timelineItems, {input.id})
    /\ Reply("deleteTimelineItem", input,
             [success |-> Cardinality(DOMAIN timelineItems \cap {input.id}) > 0])
    /\ UNCHANGED <<users, projects, mediaAssets, serial, now>>

\* Mutant: updated_at is not part of the update.
ProjectUpdateFields_NoTimestamp(input) ==
    [f \in DOMAIN input \cap ProjectUpdatable |->
        IF f = "duration" THEN ToStringOrNull(input, "duration") ELSE input[f]]

\* The column values an update writes: the fields the input provides, and
\* updated_at = new Date().
ProjectUpdateFields(input) ==
    [f \in (DOMAIN input \cap ProjectUpdatable) \cup {"updated_at"} |->
        IF f = "updated_at" THEN now
        \* input.duration?.toString() || null
        ELSE IF f = "duration" THEN ToStringOrNull(input, "duration")
        ELSE input[f]]

\* Mutant: the nullable fields are written whether the input provides them or
\* not (no "!== undefined" test), so a field left out is cleared.
TimelineItemUpdateData_AllNullable(input) ==
    [f \in (DOMAIN input \cap TimelineItemUpdatable) \cup TimelineItemNullable
            \cup {"updated_at"} |->
        IF f = "updated_at" THEN now
        ELSE IF f \in TimelineItemNullable THEN ToStringOrNull(input, f)
        ELSE input[f]]

TimelineItemUpdateData(input) ==
    [f \in (DOMAIN input \cap TimelineItemUpdatable) \cup {"updated_at"} |->
        IF f = "updated_at" THEN now
        ELSE IF f \in TimelineItemNullable THEN ToStringOrNull(input, f)
        ELSE input[f]]

\* A value written to column f of projects, as the column stores it.
ProjectStored(f, v) ==
    IF f = "duration" THEN Stored(v, DurationCol)
    ELSE IF f = "frame_rate" THEN NumericRound(v, FrameRateCol)
    ELSE v

ProjectFits(f, v) ==
    IF f = "duration" THEN StoredFits(v, DurationCol)
    ELSE IF f = "frame_rate" THEN NumericFits(v, FrameRateCol)
    ELSE TRUE

\* UPDATE ... SET fields: the columns named by `fields` are written, every
\* other column of the row keeps its value.
SetProject(row, fields) ==
    [f \in DOMAIN row |-> IF f \in DOMAIN fields THEN ProjectStored(f, fields[f]) ELSE row[f]]

SetTimelineItem(row, data) ==
    [f \in DOMAIN row |-> IF f \in DOMAIN data THEN TimelineItemStored(f, data[f]) ELSE row[f]]

\* Mutant: an archived project keeps its status.
updateProject_ArchivedIsFinal(input) ==
    IF input.id \notin DOMAIN projects
    THEN Throw("updateProject", input, "Project not found")
    ELSE IF Has(input, "status") /\ projects[input.id].status = "archived"
    THEN Throw("updateProject", input, "Project is archived")
    ELSE LET updateFields == ProjectUpdateFields(input)
             row == SetProject(projects[input.id], updateFields)
         IN  /\ projects' = [projects EXCEPT ![input.id] = row]
             /\ Reply("updateProject", input,
                      [row EXCEPT !.duration = ParseFloatOrNull(row.duration)])
             /\ UNCHANGED <<users, mediaAssets, timelineItems, serial, now>>

updateProject(input) ==
    IF input.id \notin DOMAIN projects
    THEN Throw("updateProject", input, "Project not found")
    ELSE LET updateFields == ProjectUpdateFields(input)
             row == SetProject(projects[input.id], updateFields)
         IN  IF \E f \in DOMAIN updateFields : ~ProjectFits(f, updateFields[f])
             THEN Throw("updateProject", input, "numeric field overflow")
             ELSE /\ projects' = [projects EXCEPT ![input.id] = row]
                  /\ Reply("updateProject", input,
                           [row EXCEPT !.duration = ParseFloatOrNull(row.duration)])
                  /\ UNCHANGED <<users, mediaAssets, timelineItems, serial, now>>

\* Mutant: the result of the UPDATE is not tested for a row.
updateTimelineItem_NoRowCheck(input) ==
    IF input.id \notin DOMAIN timelineItems
    THEN /\ Reply("updateTimelineItem", input, NoValue)
         /\ UNCHANGED <<store, now>>
    ELSE LET updateData == TimelineItemUpdateData(input)
             row == SetTimelineItem(timelineItems[input.id], updateData)
         IN  IF \E f \in DOMAIN updateData : ~TimelineItemFits(f, updateData[f])
             THEN Throw("updateTimelineItem", input, "numeric field overflow")
             ELSE /\ timelineItems' = [timelineItems EXCEPT ![input.id] = row]
                  /\ Reply("updateTimelineItem", input, TimelineItemReturned(row))
                  /\ UNCHANGED <<users, projects, mediaAssets, serial, now>>

updateTimelineItem(input) ==
    IF input.id \notin DOMAIN timelineItems
    THEN \* the UPDATE returns no row
         Throw("updateTimelineItem", input, "Timeline item not found")
    ELSE LET updateData == TimelineItemUpdateData(input)
             row == SetTimelineItem(timelineItems[input.id], updateData)
         IN  IF \E f \in DOMAIN updateData : ~TimelineItemFits(f, updateData[f])
             THEN Throw("updateTimelineItem", input, "numeric field overflow")
             ELSE /\ timelineItems' = [timelineItems EXCEPT ![input.id] = row]
                  /\ Reply("updateTimelineItem", input, TimelineItemReturned(row))
                  /\ UNCHANGED <<users, projects, mediaAssets, serial, now>>

\* The orders a SELECT may return the rows `ids` in: every arrangement of them.
Orders(ids) ==
    {order \in [1 .. Cardinality(ids) -> ids] :
        \A i, j \in 1 .. Cardinality(ids) : i # j => order[i] # order[j]}

\* The text of a non-negative numeric(10, 3) value, as character codes: the
\* digits of the integer part, the point (which sorts before every digit) and
\* three decimals.
RECURSIVE Digits(_)
Digits(n) == IF n < 10 THEN <<n>> ELSE Append(Digits(n \div 10), n % 10)

NumericText(x) ==
    Digits(x \div 10000) \o <<-1, (x \div 1000) % 10, (x \div 100) % 10, (x \div 10) % 10>>

RECURSIVE TextLess(_, _)
TextLess(a, b) ==
    IF b = <<>> THEN FALSE
    ELSE IF a = <<>> THEN TRUE
    ELSE IF Head(a) # Head(b) THEN Head(a) < Head(b)
    ELSE TextLess(Tail(a), Tail(b))

\* Mutant: start_time is ordered as the text the driver returns, not as a number.
TimelineOrderBy_Text(a, b) ==
    \/ a.track_number < b.track_number
    \/ /\ a.track_number = b.track_number
       /\ TextLess(NumericText(a.start_time), NumericText(b.start_time))

\* ORDER BY track_number ASC, start_time ASC: row a sorts before row b.
\* start_time is a numeric column, which the store orders by value.
TimelineOrderBy(a, b) ==
    \/ a.track_number < b.track_number
    \/ a.track_number = b.track_number /\ a.start_time < b.start_time

\* The rows of table t in the order `order` of their ids, each as Returned
\* converts it.
Rows(t, order, Returned(_)) == [k \in 1 .. Len(order) |-> Returned(t[order[k]])]

\* The timeline items of the project, inner-joined with their media asset and
\* in the ORDER BY order; rows the ORDER BY does not tell apart come in any order.
getTimelineItemsByProject(input) ==
    LET ids == {i \in DOMAIN timelineItems :
                    /\ timelineItems[i].media_asset_id \in DOMAIN mediaAssets
                    /\ timelineItems[i].project_id = input.project_id}
    IN  \E order \in Orders(ids) :
            /\ \A i, j \in 1 .. Len(order) :
                   i < j => ~TimelineOrderBy(timelineItems[order[j]], timelineItems[order[i]])
            /\ Reply("getTimelineItemsByProject", input,
                     [rows |-> Rows(timelineItems, order, TimelineItemReturned)])
            /\ UNCHANGED <<store, now>>

\* A project or a media asset as the handlers return it: duration through
\* parseFloat unless it is NULL.
DurationReturned(row) == [row EXCEPT !.duration = ParseFloatOrNull(row.duration)]

\* The projects of the user, in no particular order.
getProjectsByUser(input) ==
    LET ids == {i \in DOMAIN projects : projects[i].user_id = input.user_id}
    IN  \E order \in Orders(ids) :
            /\ Reply("getProjectsByUser", input,
                     [rows |-> Rows(projects, order, DurationReturned)])
            /\ UNCHANGED <<store, now>>

\* Mutant: the media_type filter is not applied.
getMediaAssetsByUser_NoTypeFilter(input) ==
    LET ids == {i \in DOMAIN mediaAssets : mediaAssets[i].user_id = input.user_id}
    IN  \E order \in Orders(ids) :
            /\ Reply("getMediaAssetsByUser", input,
                     [rows |-> Rows(mediaAssets, order, DurationReturned)])
            /\ UNCHANGED <<store, now>>

\* The media assets of the user, of the media type if one is provided, in no
\* particular order.
getMediaAssetsByUser(input) ==
    LET ids == {i \in DOMAIN mediaAssets :
                    /\ mediaAssets[i].user_id = input.user_id
                    /\ Has(input, "media_type") =>
                           mediaAssets[i].media_type = input.media_type}
    IN  \E order \in Orders(ids) :
            /\ Reply("getMediaAssetsByUser", input,
                     [rows |-> Rows(mediaAssets, order, DurationReturned)])
            /\ UNCHANGED <<store, now>>

(***************************************************************************)
(* tRPC procedures (server/src/index.ts): the input schema, then the       *)
(* handler.  A request the schema rejects never reaches the handler.       *)
(***************************************************************************)
createUserProcedure(raw) ==
    IF createUserInputSchema(raw) THEN createUser(raw)
    ELSE Throw("createUser", raw, "BAD_REQUEST")

createProjectProcedure(raw) ==
    IF createProjectInputSchema(raw) THEN createProject(ParseCreateProject(raw))
    ELSE Throw("createProject", raw, "BAD_REQUEST")

createMediaAssetProcedure(raw) ==
    IF createMediaAssetInputSchema(raw) THEN createMediaAsset(raw)
    ELSE Throw("createMediaAsset", raw, "BAD_REQUEST")

createTimelineItemProcedure(raw) ==
    IF createTimelineItemInputSchema(raw)
    THEN createTimelineItem(ParseCreateTimelineItem(raw))
    ELSE Throw("createTimelineItem", raw, "BAD_REQUEST")

updateProjectProcedure(raw) ==
    IF updateProjectInputSchema(raw) THEN updateProject(raw)
    ELSE Throw("updateProject", raw, "BAD_REQUEST")

updateTimelineItemProcedure(raw) ==
    IF updateTimelineItemInputSchema(raw) THEN updateTimelineItem(raw)
    ELSE Throw("updateTimelineItem", raw, "BAD_REQUEST")

getMediaAssetsByUserInputSchema(raw) ==
    ~Has(raw, "media_type") \/ raw.media_type \in MediaType

getProjectsByUserProcedure(raw) == getProjectsByUser(raw)

getMediaAssetsByUserProcedure(raw) ==
    IF getMediaAssetsByUserInputSchema(raw) THEN getMediaAssetsByUser(raw)
    ELSE Throw("getMediaAssetsByUser", raw, "BAD_REQUEST")

getTimelineItemsByProjectProcedure(raw) == getTimelineItemsByProject(raw)

deleteProjectProcedure(raw) == deleteProject(raw)
deleteMediaAssetProcedure(raw) == deleteMediaAsset(raw)
deleteTimelineItemProcedure(raw) == deleteTimelineItem(raw)

\* Time passes.
Tick ==
    /\ now < MaxClock
    /\ now' = now + 1
    /\ UNCHANGED <<store, response, inflight>>

(***************************************************************************)
(* Requests.  Ids are drawn from every id a table can have handed out,     *)
(* plus one that it never has.                                             *)
(***************************************************************************)
UserIds == {1, 2}
ProjectIds == ProjectSerials \cup {Cardinality(ProjectSerials) + 1}
AssetIds == AssetSerials \cup {Cardinality(AssetSerials) + 1}
ItemIds == 1 .. MaxItems + 1

ProjectInput(u) == [title |-> "Cut", user_id |-> u]

AssetInput(u) ==
    [filename |-> "clip.mp4", original_filename |-> "clip.mp4",
     file_path |-> "/uploads/clip.mp4", file_size |-> 10240000, mime_type |-> "video/mp4",
     media_type |-> "video", duration |-> Some(1205000), width |-> Some(1920),
     height |-> Some(1080), user_id |-> u]

ItemInput(p, a, start, end) ==
    [project_id |-> p, media_asset_id |-> a, track_number |-> 0,
     start_time |-> start, end_time |-> end]

CreateUser == createUserProcedure(Ada)
CreateProject == \E u \in UserIds : createProjectProcedure(ProjectInput(u))
CreateMediaAsset == \E u \in UserIds : createMediaAssetProcedure(AssetInput(u))
CreateTimelineItem ==
    \E p \in ProjectIds, a \in AssetIds :
        createTimelineItemProcedure(ItemInput(p, a, 0, 100000))
DeleteProject == \E id \in ProjectIds : deleteProjectProcedure([id |-> id])
DeleteMediaAsset == \E id \in AssetIds : deleteMediaAssetProcedure([id |-> id])
DeleteTimelineItem == \E id \in ItemIds : deleteTimelineItemProcedure([id |-> id])

\* The store under creates and deletes.
Next ==
    \/ CreateUser
    \/ CreateProject
    \/ CreateMediaAsset
    \/ CreateTimelineItem
    \/ DeleteProject
    \/ DeleteMediaAsset
    \/ DeleteTimelineItem

Spec == Init /\ [][Next]_vars

(***************************************************************************)
(* Timing: timeline items of one project are placed and moved.             *)
(***************************************************************************)
\* start_time and end_time of the create requests: a ten second clip, and two
\* requests whose end is not after their start.
CreateTimes == {<<0, 100000>>, <<50000, 50000>>, <<100000, 50000>>}

\* The updates of start_time and end_time, each provided or not.
UpdateTimes ==
    {[start_time |-> 200000], [end_time |-> 50000],
     [start_time |-> 0, end_time |-> 100000], [start_time |-> 50000, end_time |-> 50000]}

CreateTimedItem ==
    \E t \in CreateTimes : createTimelineItemProcedure(ItemInput(1, 1, t[1], t[2]))

UpdateItemTimes ==
    \E id \in ItemIds, u \in UpdateTimes :
        updateTimelineItemProcedure(
            [f \in DOMAIN u \cup {"id"} |-> IF f = "id" THEN id ELSE u[f]])

NextTiming ==
    \/ CreateUser
    \/ CreateProject
    \/ CreateMediaAsset
    \/ CreateTimedItem
    \/ UpdateItemTimes
    \/ DeleteTimelineItem

SpecTiming == Init /\ [][NextTiming]_vars

(***************************************************************************)
(* Editing: a data set is created, and then the project settings or the    *)
(* timeline items are edited, while the clock runs.                        *)
(***************************************************************************)
FullProjectInput ==
    [title |-> "Cut", description |-> Some("rough cut"), frame_rate |-> 250000,
     resolution_width |-> 1280, resolution_height |-> 720, user_id |-> 1]

FullItemInput ==
    [project_id |-> 1, media_asset_id |-> 1, track_number |-> 0,
     start_time |-> 0, end_time |-> 100000, media_start_offset |-> 5000,
     volume |-> Some(8000), opacity |-> Some(10000),
     position_x |-> Some(1005000), position_y |-> Some(-2002500),
     scale |-> Some(15000), rotation |-> Some(450000)]

\* The fields of the updateProject requests; frame_rate 0 is not positive, and
\* frame_rate 0.004 is.
ProjectEdits ==
    {<<>>,
     [title |-> "Recut"],
     [description |-> Null],
     [description |-> Some("")],
     [duration |-> Null],
     [duration |-> Some(0)],
     [duration |-> Some(123456), status |-> "completed"],
     [frame_rate |-> 239760, resolution_width |-> 1920, resolution_height |-> 1080],
     [frame_rate |-> 0],
     [frame_rate |-> 40]}

\* The fields of the updateTimelineItem requests; volume 2 is out of range and
\* scale 100 does not fit numeric(5, 3).
ItemEdits ==
    {<<>>,
     [track_number |-> 3],
     [start_time |-> 20000, end_time |-> 80000, media_start_offset |-> 25000],
     [volume |-> Null, opacity |-> Null],
     [position_x |-> Null, position_y |-> Null, scale |-> Null, rotation |-> Null],
     [volume |-> Some(0), opacity |-> Some(0), position_x |-> Some(0),
      position_y |-> Some(0), rotation |-> Some(0)],
     [volume |-> Some(6040), scale |-> Some(12500)],
     [volume |-> Some(20000)],
     [scale |-> Some(1000000)]}

WithId(id, fields) == [f \in DOMAIN fields \cup {"id"} |-> IF f = "id" THEN id ELSE fields[f]]

SetUpOps == {"none", "createUser", "createProject", "createMediaAsset", "createTimelineItem"}
EditOps == {"updateProject", "updateTimelineItem"}

\* The data set: a user, the projects, a media asset and the timeline items,
\* the first of them in project 1.
SetUpDone ==
    /\ DOMAIN projects = ProjectSerials
    /\ DOMAIN timelineItems = 1 .. MaxItems

SetUpUser == response.op \in SetUpOps /\ createUserProcedure(Ada)
SetUpProject == response.op \in SetUpOps /\ createProjectProcedure(FullProjectInput)
SetUpMediaAsset ==
    response.op \in SetUpOps /\ mediaAssets = <<>> /\ createMediaAssetProcedure(AssetInput(1))
SetUpTimelineItem == response.op \in SetUpOps /\ createTimelineItemProcedure(FullItemInput)

\* One editor is used in a session: the project settings or the timeline.
EditProject ==
    /\ SetUpDone
    /\ response.op \in SetUpOps \cup {"updateProject"}
    /\ \E id \in {1, Cardinality(ProjectSerials) + 1}, e \in ProjectEdits :
           updateProjectProcedure(WithId(id, e))

EditTimelineItem ==
    /\ SetUpDone
    /\ response.op \in SetUpOps \cup {"updateTimelineItem"}
    /\ \E id \in {1, MaxItems + 1}, e \in ItemEdits :
           updateTimelineItemProcedure(WithId(id, e))

\* Time passes between the edits.
EditTick == response.op \in EditOps /\ Tick

NextEdit ==
    \/ SetUpUser
    \/ SetUpProject
    \/ SetUpMediaAsset
    \/ SetUpTimelineItem
    \/ EditProject
    \/ EditTimelineItem
    \/ EditTick

SpecEdit == Init /\ [][NextEdit]_vars

(***************************************************************************)
(* Properties                                                              *)
(***************************************************************************)
\* A step that serves a request of procedure op (the clock stands still);
\* response' is then the outcome of that request.
Served(op) == now' = now /\ response'.op = op

NotFoundErrors ==
    {"Project not found", "Media asset not found", "Timeline item not found",
     "User does not exist"}

\* The rows of table t other than those of ids are in t2 as they are in t.
Kept(t, t2, ids) ==
    \A i \in DOMAIN t \ ids : i \in DOMAIN t2 /\ t2[i] = t[i]

\* C2: a successful deleteMediaAsset(id) leaves no timeline item that
\* references id and no asset row id; a deleteMediaAsset(id) or a
\* createTimelineItem referencing id that follows it fails with not-found.
C2_DeleteMediaAssetRemovesAssetAndItems ==
    [][ /\ (Served("deleteMediaAsset") /\ response'.ok) =>
              /\ response'.input.id \notin DOMAIN mediaAssets'
              /\ \A i \in DOMAIN timelineItems' :
                     timelineItems'[i].media_asset_id # response'.input.id
        /\ (response.op = "deleteMediaAsset" /\ response.ok /\ now' = now) =>
              /\ (response'.op = "deleteMediaAsset"
                  /\ response'.input.id = response.input.id) =>
                     ~response'.ok /\ response'.error = "Media asset not found"
              /\ (response'.op = "createTimelineItem"
                  /\ response'.input.media_asset_id = response.input.id) =>
                     ~response'.ok /\ response'.error \in NotFoundErrors
      ]_vars

\* C2 witness: both timeline items referenced the only asset ever created, the
\* asset is deleted with them, and a createTimelineItem that references it
\* has just failed for the missing asset.
C2_Witness ==
    /\ response.op = "createTimelineItem" /\ ~response.ok
    /\ response.error = "Media asset not found"
    /\ response.input.media_asset_id = 1
    /\ serial.media_assets = 2 /\ mediaAssets = <<>>
    /\ serial.timeline_items = 3 /\ timelineItems = <<>>
    /\ DOMAIN projects = {1, 2}

\* C3: a successful deleteProject(id) leaves no project row id and no
\* timeline item of project id.
C3_DeleteProjectCascades ==
    [][ (Served("deleteProject") /\ response'.ok) =>
            /\ response'.input.id \notin DOMAIN projects'
            /\ \A i \in DOMAIN timelineItems' :
                   timelineItems'[i].project_id # response'.input.id
      ]_vars

\* C3 witness: project 2, the only project left, has just been deleted, and
\* with it the last timeline item.
C3_Witness ==
    /\ response.op = "deleteProject" /\ response.ok /\ response.input.id = 2
    /\ projects = <<>> /\ serial.projects = 3
    /\ serial.timeline_items = 3 /\ timelineItems = <<>>
    /\ DOMAIN mediaAssets = {1, 2}

\* C4: deleteProject(id) leaves the media assets as they are, and every other
\* project and every timeline item of another project.
C4_DeleteProjectFrame ==
    [][ Served("deleteProject") =>
            /\ mediaAssets' = mediaAssets
            /\ users' = users
            /\ Kept(projects, projects', {response'.input.id})
            /\ Kept(timelineItems, timelineItems', ItemsOfProject(response'.input.id))
      ]_vars

\* C4 witness: project 1 has been deleted; project 2, its timeline item and
\* the asset both projects used are still there.
C4_Witness ==
    /\ response.op = "deleteProject" /\ response.ok /\ response.input.id = 1
    /\ DOMAIN projects = {2}
    /\ serial.timeline_items = 3 /\ Cardinality(DOMAIN timelineItems) = 1
    /\ \A i \in DOMAIN timelineItems :
           timelineItems[i].project_id = 2 /\ timelineItems[i].media_asset_id = 1
    /\ DOMAIN mediaAssets = {1}

\* C5: a createTimelineItem whose project_id or media_asset_id references no
\* row fails with a not-found error and leaves the store as it was.
C5_CreateTimelineItemNotFound ==
    [][ ( /\ Served("createTimelineItem")
          /\ createTimelineItemInputSchema(response'.input)
          /\ \/ response'.input.project_id \notin DOMAIN projects
             \/ response'.input.media_asset_id \notin DOMAIN mediaAssets ) =>
            /\ ~response'.ok
            /\ response'.error \in {"Project not found", "Media asset not found"}
            /\ UNCHANGED store
      ]_vars

\* C5 witness: a createTimelineItem for an existing project and a media asset
\* that does not exist has failed, next to a timeline item created before.
C5_Witness ==
    /\ response.op = "createTimelineItem" /\ ~response.ok
    /\ response.error = "Media asset not found"
    /\ response.input.project_id \in DOMAIN projects
    /\ response.input.media_asset_id \notin DOMAIN mediaAssets
    /\ Cardinality(DOMAIN timelineItems) = 1

\* C7: deleteTimelineItem(id) never raises; with no timeline item id it returns
\* success = false and changes nothing, otherwise it returns success = true
\* and removes that row and no other.
C7_DeleteTimelineItem ==
    [][ Served("deleteTimelineItem") =>
            /\ response'.ok
            /\ UNCHANGED <<users, projects, mediaAssets, serial>>
            /\ IF response'.input.id \in DOMAIN timelineItems
               THEN /\ response'.value.success
                    /\ DOMAIN timelineItems' = DOMAIN timelineItems \ {response'.input.id}
                    /\ Kept(timelineItems, timelineItems', {response'.input.id})
               ELSE /\ ~response'.value.success
                    /\ timelineItems' = timelineItems
      ]_vars

\* C7 witness: a deleteTimelineItem has returned success = true and the other
\* timeline item is still there.
C7_Witness ==
    /\ response.op = "deleteTimelineItem" /\ response.ok
    /\ response.value.success
    /\ serial.timeline_items = 3
    /\ Cardinality(DOMAIN timelineItems) = 1
    /\ response.input.id \notin DOMAIN timelineItems

\* C1: every stored timeline item has end_time > start_time.
C1_EndAfterStart ==
    \A i \in DOMAIN timelineItems : timelineItems[i].end_time > timelineItems[i].start_time

\* C6: a createTimelineItem request with end_time <= start_time is rejected by
\* the input schema and the store is as it was.
C6_CreateRejectsEndNotAfterStart ==
    [][ ( /\ Served("createTimelineItem")
          /\ response'.input.end_time <= response'.input.start_time ) =>
            /\ ~response'.ok
            /\ response'.error = "BAD_REQUEST"
            /\ UNCHANGED store
      ]_vars

\* C6 witness: with the project and the media asset in place, a request with
\* end_time before start_time has been rejected.
C6_Witness ==
    /\ response.op = "createTimelineItem" /\ ~response.ok
    /\ response.error = "BAD_REQUEST"
    /\ response.input.end_time < response.input.start_time
    /\ response.input.project_id \in DOMAIN projects
    /\ response.input.media_asset_id \in DOMAIN mediaAssets
    /\ timelineItems # <<>>

\* A successful update of a project / of a timeline item.
ProjectUpdated == Served("updateProject") /\ response'.ok
TimelineItemUpdated == Served("updateTimelineItem") /\ response'.ok

\* C8: an update leaves every field its input does not provide as it was, never
\* changes id, the owner and parent ids or created_at, and changes no other row.
C8_UpdateFrame ==
    [][ /\ ProjectUpdated =>
              LET input == response'.input
                  old == projects[input.id]
                  new == projects'[input.id]
              IN  /\ DOMAIN projects' = DOMAIN projects
                  /\ Kept(projects, projects', {input.id})
                  /\ \A f \in ProjectUpdatable \ DOMAIN input : new[f] = old[f]
                  /\ new.id = old.id /\ new.user_id = old.user_id
                  /\ new.created_at = old.created_at
                  /\ UNCHANGED <<users, mediaAssets, timelineItems, serial>>
        /\ TimelineItemUpdated =>
              LET input == response'.input
                  old == timelineItems[input.id]
                  new == timelineItems'[input.id]
              IN  /\ DOMAIN timelineItems' = DOMAIN timelineItems
                  /\ Kept(timelineItems, timelineItems', {input.id})
                  /\ \A f \in TimelineItemUpdatable \ DOMAIN input : new[f] = old[f]
                  /\ new.id = old.id /\ new.project_id = old.project_id
                  /\ new.media_asset_id = old.media_asset_id
                  /\ new.created_at = old.created_at
                  /\ UNCHANGED <<users, projects, mediaAssets, serial>>
      ]_vars

\* C8 witness: an update of track_number alone has been served; the other
\* fields of the item are as they were created and the second item is there.
C8_Witness ==
    /\ response.op = "updateTimelineItem" /\ response.ok
    /\ DOMAIN response.input = {"id", "track_number"}
    /\ timelineItems[1].track_number = 3
    /\ timelineItems[1].volume = Some(8000) /\ timelineItems[1].rotation = Some(450000)
    /\ timelineItems[1].end_time = 100000
    /\ 2 \in DOMAIN timelineItems /\ timelineItems[2].track_number = 0

\* The nullable field f of a row after an update with `input`, where `given`
\* is what a provided value v is stored as.
NullableUpdated(old, new, input, f, given(_)) ==
    IF ~Has(input, f) THEN new[f] = old[f]
    ELSE IF input[f] = Null THEN new[f] = Null
    ELSE new[f] = Some(given(input[f][1]))

\* C9 as stated: a nullable field given as null is cleared, a field not
\* provided keeps its value, and a field given a value is stored as that value.
C9_ValueStoredAsGiven ==
    [][ /\ ProjectUpdated =>
              LET input == response'.input
                  Same(v) == v
              IN  \A f \in {"description", "duration"} :
                      NullableUpdated(projects[input.id], projects'[input.id], input, f, Same)
        /\ TimelineItemUpdated =>
              LET input == response'.input
                  Same(v) == v
              IN  \A f \in TimelineItemNullable :
                      NullableUpdated(timelineItems[input.id], timelineItems'[input.id],
                                      input, f, Same)
      ]_vars

\* C9, amended: a nullable field given as null is cleared, a field not provided
\* keeps its value, and a field given a value (0 included) is stored as that
\* value rounded to the scale of its column, and not as null.
C9_NullClearsValueStored ==
    [][ /\ ProjectUpdated =>
              LET input == response'.input
                  old == projects[input.id]
                  new == projects'[input.id]
                  Same(v) == v
                  AsDuration(v) == NumericRound(v, DurationCol)
              IN  /\ NullableUpdated(old, new, input, "description", Same)
                  /\ NullableUpdated(old, new, input, "duration", AsDuration)
                  /\ response'.value.duration = new.duration
        /\ TimelineItemUpdated =>
              LET input == response'.input
                  old == timelineItems[input.id]
                  new == timelineItems'[input.id]
              IN  \A f \in TimelineItemNullable :
                      LET AsColumn(v) == NumericRound(v, TimelineItemNumeric[f])
                      IN  /\ NullableUpdated(old, new, input, f, AsColumn)
                          /\ response'.value[f] = new[f]
      ]_vars

\* C9 witness: volume, opacity, position and rotation were given as 0 and are
\* stored as 0; scale, cleared by an earlier update and not provided now, is
\* still null.
C9_Witness ==
    /\ response.op = "updateTimelineItem" /\ response.ok
    /\ Has(response.input, "volume") /\ response.input.volume = Some(0)
    /\ ~Has(response.input, "scale")
    /\ timelineItems[1].volume = Some(0) /\ timelineItems[1].rotation = Some(0)
    /\ timelineItems[1].scale = Null

C12_DeleteNotFound ==
    [][ /\ (Served("deleteProject") /\ response'.input.id \notin DOMAIN projects) =>
              /\ ~response'.ok /\ response'.error = "Project not found"
              /\ UNCHANGED store
        /\ (Served("deleteMediaAsset") /\ response'.input.id \notin DOMAIN mediaAssets) =>
              /\ ~response'.ok /\ response'.error = "Media asset not found"
              /\ UNCHANGED store
      ]_vars

\* C12 witness: a deleteProject for an id no project has has failed while a
\* project, a media asset and a timeline item are stored.
C12_Witness ==
    /\ response.op = "deleteProject" /\ ~response.ok
    /\ response.error = "Project not found"
    /\ response.input.id \notin DOMAIN projects
    /\ projects # <<>> /\ mediaAssets # <<>> /\ timelineItems # <<>>

\* C14: a createProject or createMediaAsset whose user_id references no user
\* fails with a not-found error and inserts nothing.
C14_CreateForMissingUser ==
    [][ ( /\ Served("createProject") \/ Served("createMediaAsset")
          /\ response'.input.user_id \notin DOMAIN users ) =>
            /\ ~response'.ok /\ response'.error = "User does not exist"
            /\ UNCHANGED store
      ]_vars

\* C14 witness: with a user and a project of that user stored, a createProject
\* for a user id that no user has has failed.
C14_Witness ==
    /\ response.op = "createProject" /\ ~response.ok
    /\ response.error = "User does not exist"
    /\ users # <<>> /\ response.input.user_id \notin DOMAIN users
    /\ DOMAIN projects = {1}

(***************************************************************************)
(* Sign-up: users are created, under names and emails that may be taken.   *)
(***************************************************************************)
SignUp ==
    \E raw \in UserInputs \cup {[username |-> "", email |-> "ada@example.com"]} :
        createUserProcedure(raw)

\* The clock runs while users sign up.
SignUpTick == Tick

NextSignUp ==
    \/ SignUp
    \/ SignUpTick

SpecSignUp == Init /\ [][NextSignUp]_vars

StartTimes == {20000, 100000}
Tracks == {0, 1}

ArrangeProject == createProjectProcedure(ProjectInput(1))
ArrangeMediaAsset == mediaAssets = <<>> /\ createMediaAssetProcedure(AssetInput(1))

PlaceItem ==
    \E p \in ProjectSerials, track \in Tracks, start \in StartTimes :
        createTimelineItemProcedure(
            [ItemInput(p, 1, start, 300000) EXCEPT !.track_number = track])

MoveItem ==
    \E id \in 1 .. MaxItems :
        \/ \E start \in StartTimes :
               updateTimelineItemProcedure([id |-> id, start_time |-> start])
        \/ \E track \in Tracks :
               updateTimelineItemProcedure([id |-> id, track_number |-> track])

ListTimeline ==
    \E p \in ProjectIds : getTimelineItemsByProjectProcedure([project_id |-> p])

NextArrange ==
    \/ CreateUser
    \/ ArrangeProject
    \/ ArrangeMediaAsset
    \/ PlaceItem
    \/ MoveItem
    \/ ListTimeline

SpecArrange == Init /\ [][NextArrange]_vars

\* C15: the list getTimelineItemsByProject returns is sorted by track_number
\* and, within a track, by start_time as a number.
C15_TimelineSorted ==
    (response.op = "getTimelineItemsByProject" /\ response.ok) =>
        \A i, j \in 1 .. Len(response.value.rows) :
            i < j =>
                LET a == response.value.rows[i]
                    b == response.value.rows[j]
                IN  \/ a.track_number < b.track_number
                    \/ a.track_number = b.track_number /\ a.start_time <= b.start_time

\* C15 witness: the item at 2 s is listed before the item at 10 s of the same
\* track, though it was created after it.
C15_Witness ==
    /\ response.op = "getTimelineItemsByProject" /\ response.ok
    /\ Len(response.value.rows) = 2
    /\ response.value.rows[1].track_number = response.value.rows[2].track_number
    /\ response.value.rows[1].start_time = 20000
    /\ response.value.rows[2].start_time = 100000
    /\ response.value.rows[1].id > response.value.rows[2].id
    /\ response.value.rows[1].created_at >= response.value.rows[2].created_at

(***************************************************************************)
(* Library: two users create projects, media assets and timeline items,    *)
(* and the lists of a user and of a project are fetched.                   *)
(***************************************************************************)
Bob == [username |-> "bob", email |-> "bob@example.com"]

JoinUser == \E raw \in {Ada, Bob} : createUserProcedure(raw)

LibraryAsset ==
    \E u \in UserIds, t \in {"video", "audio"} :
        createMediaAssetProcedure([AssetInput(u) EXCEPT !.media_type = t])

LibraryItem ==
    \E p \in ProjectSerials : createTimelineItemProcedure(ItemInput(p, 1, 0, 100000))

ListProjects ==
    \E u \in UserIds \cup {3} : getProjectsByUserProcedure([user_id |-> u])

ListMediaAssets ==
    \E u \in UserIds \cup {3} :
        \/ getMediaAssetsByUserProcedure([user_id |-> u])
        \/ \E t \in {"video", "image"} :
               getMediaAssetsByUserProcedure([user_id |-> u, media_type |-> t])

NextLibrary ==
    \/ JoinUser
    \/ CreateProject
    \/ LibraryAsset
    \/ LibraryItem
    \/ ListProjects
    \/ ListMediaAssets
    \/ ListTimeline

SpecLibrary == Init /\ [][NextLibrary]_vars

\* The list `rows` holds the rows `ids` of table t, each once and as stored.
ExactlyRows(rows, t, ids) ==
    /\ Len(rows) = Cardinality(ids)
    /\ {rows[k].id : k \in 1 .. Len(rows)} = ids
    /\ \A k \in 1 .. Len(rows) : rows[k] = t[rows[k].id]

\* C16: each list query succeeds and returns all and only the stored rows of
\* its parent, each once: the timeline items of the project, the projects of
\* the user, the media assets of the user (of the media type, if one is given);
\* the list is empty when nothing matches or the parent does not exist.
C16_ListsExact ==
    /\ response.op = "getTimelineItemsByProject" =>
           /\ response.ok
           /\ ExactlyRows(response.value.rows, timelineItems,
                  {i \in DOMAIN timelineItems :
                      timelineItems[i].project_id = response.input.project_id})
    /\ response.op = "getProjectsByUser" =>
           /\ response.ok
           /\ ExactlyRows(response.value.rows, projects,
                  {i \in DOMAIN projects : projects[i].user_id = response.input.user_id})
    /\ response.op = "getMediaAssetsByUser" =>
           /\ response.ok
           /\ ExactlyRows(response.value.rows, mediaAssets,
                  {i \in DOMAIN mediaAssets :
                      /\ mediaAssets[i].user_id = response.input.user_id
                      /\ Has(response.input, "media_type") =>
                             mediaAssets[i].media_type = response.input.media_type})

\* C16 witness: the user has a video and an audio asset, and the list of the
\* user's videos holds the video alone.
C16_Witness ==
    /\ response.op = "getMediaAssetsByUser" /\ response.ok
    /\ Has(response.input, "media_type") /\ response.input.media_type = "video"
    /\ Len(response.value.rows) = 1
    /\ Cardinality({i \in DOMAIN mediaAssets :
                        mediaAssets[i].user_id = response.input.user_id}) = 2

(***************************************************************************)
(* Concurrent requests.  A handler gives way to other requests at each of  *)
(* its awaits, and each awaited statement is one step on the store; the    *)
(* handlers open no transaction around their statements.                   *)
(***************************************************************************)
Running(task) == inflight[task].pc \notin {"idle", "done"}

\* The handler moves on to its next statement.
Goto(task, pc) ==
    /\ inflight' = [inflight EXCEPT ![task].pc = pc]
    /\ UNCHANGED response

\* The handler returns or throws: `result` is "ok" or the error.
Finish(task, result, value) ==
    /\ inflight' = [inflight EXCEPT ![task].pc = "done", ![task].result = result]
    /\ response' = [op |-> task, input |-> inflight[task].input, ok |-> result = "ok",
                    error |-> IF result = "ok" THEN "" ELSE result, value |-> value]

\* Mutant: timeline_items.media_asset_id and project_id reference nothing.
TimelineItemForeignKeys_None(row) == TRUE

\* timeline_items.project_id REFERENCES projects, media_asset_id REFERENCES
\* media_assets: an insert of a row whose parent is absent is refused.
TimelineItemForeignKeys(row) ==
    /\ row.project_id \in DOMAIN projects
    /\ row.media_asset_id \in DOMAIN mediaAssets

\* deleteMediaAsset, statement by statement.
DeleteMediaAssetBegin ==
    /\ ~Running("deleteMediaAsset")
    /\ \E id \in AssetSerials :
           inflight' = [inflight EXCEPT !.deleteMediaAsset =
                           [pc |-> "selectAsset", input |-> [id |-> id],
                            result |-> "", removed |-> {}]]
    /\ UNCHANGED <<store, now, response>>

DeleteMediaAssetSelect ==
    /\ inflight.deleteMediaAsset.pc = "selectAsset"
    /\ IF inflight.deleteMediaAsset.input.id \notin DOMAIN mediaAssets
       THEN Finish("deleteMediaAsset", "Media asset not found", NoValue)
       ELSE Goto("deleteMediaAsset", "deleteItems")
    /\ UNCHANGED <<store, now>>

\* DELETE FROM timeline_items WHERE media_asset_id = id
DeleteMediaAssetItems ==
    /\ inflight.deleteMediaAsset.pc = "deleteItems"
    /\ LET id == inflight.deleteMediaAsset.input.id
       IN  /\ timelineItems' = Delete(timelineItems, ItemsOfAsset(id))
           /\ inflight' = [inflight EXCEPT !.deleteMediaAsset.pc = "deleteAsset",
                                           !.deleteMediaAsset.removed = ItemsOfAsset(id)]
    /\ UNCHANGED <<users, projects, mediaAssets, serial, now, response>>

\* DELETE FROM media_assets WHERE id = id, and the return
DeleteMediaAssetAsset ==
    /\ inflight.deleteMediaAsset.pc = "deleteAsset"
    /\ DeleteMediaAssetRow(inflight.deleteMediaAsset.input.id, timelineItems)
    /\ Finish("deleteMediaAsset", "ok", [success |-> TRUE])
    /\ UNCHANGED <<users, projects, serial, now>>

\* An awaited statement fails in the store (the connection is lost, the
\* statement is cancelled): the handler rethrows and runs no further statement.
DeleteMediaAssetFails ==
    /\ inflight.deleteMediaAsset.pc \in {"deleteItems", "deleteAsset"}
    /\ Finish("deleteMediaAsset", "store failure", NoValue)
    /\ UNCHANGED <<store, now>>

\* createTimelineItem, statement by statement.
CreateTimelineItemBegin ==
    /\ ~Running("createTimelineItem")
    /\ \E a \in AssetSerials :
           inflight' = [inflight EXCEPT !.createTimelineItem =
                           [pc |-> "selectProject",
                            input |-> ParseCreateTimelineItem(ItemInput(1, a, 0, 100000)),
                            result |-> "", removed |-> {}]]
    /\ UNCHANGED <<store, now, response>>

CreateTimelineItemSelectProject ==
    /\ inflight.createTimelineItem.pc = "selectProject"
    /\ IF inflight.createTimelineItem.input.project_id \notin DOMAIN projects
       THEN Finish("createTimelineItem", "Project not found", NoValue)
       ELSE Goto("createTimelineItem", "selectAsset")
    /\ UNCHANGED <<store, now>>

CreateTimelineItemSelectAsset ==
    /\ inflight.createTimelineItem.pc = "selectAsset"
    /\ IF inflight.createTimelineItem.input.media_asset_id \notin DOMAIN mediaAssets
       THEN Finish("createTimelineItem", "Media asset not found", NoValue)
       ELSE Goto("createTimelineItem", "insert")
    /\ UNCHANGED <<store, now>>

\* INSERT INTO timeline_items ... RETURNING: the id is drawn from the sequence,
\* then the foreign keys are checked.
CreateTimelineItemInsert ==
    /\ inflight.createTimelineItem.pc = "insert"
    /\ serial.timeline_items <= MaxItems
    /\ LET values == TimelineItemValues(inflight.createTimelineItem.input)
           row == [f \in DOMAIN values \cup {"id", "created_at", "updated_at"} |->
                       IF f = "id" THEN serial.timeline_items
                       ELSE IF f \in {"created_at", "updated_at"} THEN now
                       ELSE TimelineItemStored(f, values[f])]
       IN  /\ serial' = NextSerial("timeline_items")
           /\ IF TimelineItemForeignKeys(row)
              THEN /\ timelineItems' = Insert(timelineItems, row)
                   /\ Finish("createTimelineItem", "ok", TimelineItemReturned(row))
              ELSE /\ timelineItems' = timelineItems
                   /\ Finish("createTimelineItem", "foreign key violation", NoValue)
    /\ UNCHANGED <<users, projects, mediaAssets, now>>

RaceMediaAsset == createMediaAssetProcedure(AssetInput(1))

NextRace ==
    \/ CreateUser
    \/ ArrangeProject
    \/ RaceMediaAsset
    \/ DeleteMediaAssetBegin
    \/ DeleteMediaAssetSelect
    \/ DeleteMediaAssetItems
    \/ DeleteMediaAssetAsset
    \/ DeleteMediaAssetFails
    \/ CreateTimelineItemBegin
    \/ CreateTimelineItemSelectProject
    \/ CreateTimelineItemSelectAsset
    \/ CreateTimelineItemInsert

SpecRace == Init /\ [][NextRace]_vars

\* C17: deleteMediaAsset is all-or-nothing: in no state, while the handler runs
\* or after it has failed, are timeline items of the asset deleted by it while
\* the asset row exists.
C17_DeleteMediaAssetAllOrNothing ==
    inflight.deleteMediaAsset.removed # {} =>
        inflight.deleteMediaAsset.input.id \notin DOMAIN mediaAssets

\* C18: no timeline item references an absent media asset, and once a
\* successful deleteMediaAsset(a) and a createTimelineItem referencing a have
\* both finished, no timeline item references a.
C18_RaceResolvedByConstraints ==
    /\ \A i \in DOMAIN timelineItems :
           timelineItems[i].media_asset_id \in DOMAIN mediaAssets
    /\ ( /\ inflight.deleteMediaAsset.pc = "done"
         /\ inflight.deleteMediaAsset.result = "ok"
         /\ inflight.createTimelineItem.pc = "done"
         /\ inflight.createTimelineItem.input.media_asset_id
                = inflight.deleteMediaAsset.input.id ) =>
           ItemsOfAsset(inflight.deleteMediaAsset.input.id) = {}

\* C18 witness: the delete removed timeline item 1, the create then inserted
\* item 2 for the same asset, and the delete of the asset row took it along.
C18_Witness ==
    /\ inflight.deleteMediaAsset.pc = "done" /\ inflight.deleteMediaAsset.result = "ok"
    /\ inflight.createTimelineItem.pc = "done" /\ inflight.createTimelineItem.result = "ok"
    /\ inflight.createTimelineItem.input.media_asset_id = inflight.deleteMediaAsset.input.id
    /\ inflight.deleteMediaAsset.removed = {1}
    /\ serial.timeline_items = 3 /\ timelineItems = <<>>
    /\ response.op = "deleteMediaAsset"

\* C19: every stored project has frame_rate > 0 (as the column holds it, with
\* two decimals), resolution_width > 0 and resolution_height > 0.
C19_ProjectSettingsPositive ==
    \A p \in DOMAIN projects :
        /\ projects[p].frame_rate > 0
        /\ projects[p].resolution_width > 0
        /\ projects[p].resolution_height > 0

\* C20: every project whose duration is not null has a duration that is at
\* least the end_time of each of its timeline items.
C20_DurationCoversItems ==
    \A p \in DOMAIN projects :
        projects[p].duration # Null =>
            \A i \in ItemsOfProject(p) : projects[p].duration[1] >= timelineItems[i].end_time

(***************************************************************************)
(* Status: the status of the projects is set, to every status and to one   *)
(* that is not in the enumeration, while the clock runs.                   *)
(***************************************************************************)
StatusEdit ==
    \E id \in ProjectIds, status \in ProjectStatus \cup {"deleted"} :
        updateProjectProcedure([id |-> id, status |-> status])

StatusTick == Tick

NextStatus ==
    \/ CreateUser
    \/ ArrangeProject
    \/ StatusEdit
    \/ StatusTick

SpecStatus == Init /\ [][NextStatus]_vars

\* C21: an updateProject that sets a status of the enumeration on an existing
\* project succeeds, whatever status the project is in, and leaves the project
\* in the status set.
C21_AnyStatusToAnyStatus ==
    [][ ( /\ Served("updateProject")
          /\ Has(response'.input, "status") /\ response'.input.status \in ProjectStatus
          /\ response'.input.id \in DOMAIN projects ) =>
            /\ response'.ok
            /\ projects'[response'.input.id].status = response'.input.status
            /\ response'.value.status = response'.input.status
      ]_vars

\* C21 witness: project 2 is archived, and an updateProject served after the
\* clock advanced has set project 1 to draft, the status projects start in.
C21_Witness ==
    /\ response.op = "updateProject" /\ response.ok
    /\ response.input.id = 1 /\ response.input.status = "draft"
    /\ DOMAIN projects = {1, 2}
    /\ projects[1].status = "draft" /\ projects[2].status = "archived"
    /\ projects[1].updated_at > projects[1].created_at

(***************************************************************************)
(* New projects: projects are created from inputs of every shape, and      *)
(* their description is edited.                                            *)
(***************************************************************************)
\* The fields of the createProject requests besides title and user_id: none
\* (all defaults), all of them, a null and an empty description, a status and
\* a duration (which the input schema does not have), and frame rates of
\* 0.004, of 1000 (more than numeric(5, 2) holds) and of 0 (not positive).
NewProjectFields ==
    {<<>>,
     [description |-> Some("rough cut"), frame_rate |-> 239760,
      resolution_width |-> 1280, resolution_height |-> 720],
     [description |-> Null],
     [description |-> Some("")],
     [status |-> "completed", duration |-> Some(50000)],
     [frame_rate |-> 40],
     [frame_rate |-> 10000000],
     [frame_rate |-> 0]}

NewProjectInput(u, fields) ==
    [f \in DOMAIN fields \cup {"title", "user_id"} |->
        IF f = "title" THEN "Cut" ELSE IF f = "user_id" THEN u ELSE fields[f]]

NewProject ==
    \E u \in UserIds, fields \in NewProjectFields :
        createProjectProcedure(NewProjectInput(u, fields))

DescribeProject ==
    \E id \in {1, Cardinality(ProjectSerials) + 1},
       description \in {Null, Some(""), Some("final cut")} :
        updateProjectProcedure([id |-> id, description |-> description])

NextNewProject ==
    \/ CreateUser
    \/ NewProject
    \/ DescribeProject

SpecNewProject == Init /\ [][NextNewProject]_vars

\* A createProject that has succeeded.
ProjectCreated == Served("createProject") /\ response'.ok

\* C22: a project that createProject has created is a new row with status
\* draft and duration null, whatever the input, owned by the given user_id.
C22_NewProjectIsDraft ==
    [][ ProjectCreated =>
            LET id == response'.value.id
            IN  /\ id \notin DOMAIN projects /\ id \in DOMAIN projects'
                /\ projects'[id].status = "draft"
                /\ projects'[id].duration = Null
                /\ projects'[id].user_id = response'.input.user_id
                /\ response'.value.status = "draft"
                /\ response'.value.duration = Null
                /\ response'.value.user_id = response'.input.user_id
      ]_vars

\* C22 witness: a createProject whose input carried status completed and a
\* duration has created project 2 as a draft with no duration.
C22_Witness ==
    /\ response.op = "createProject" /\ response.ok
    /\ Has(response.input, "status") /\ response.input.status = "completed"
    /\ response.value.id = 2
    /\ projects[2].status = "draft" /\ projects[2].duration = Null
    /\ projects[2].user_id = 1

\* C25: of a created project, resolution_width and resolution_height are
\* stored and returned as given, and frame_rate is stored and returned as the
\* input rounded to two decimals: a multiple of 0.01 at most 0.005 from it.
C25_ProjectNumbersRoundTrip ==
    [][ ProjectCreated =>
            LET row == projects'[response'.value.id]
                input == response'.input
            IN  /\ row.resolution_width = input.resolution_width
                /\ row.resolution_height = input.resolution_height
                /\ row.frame_rate % 100 = 0
                /\ 2 * Abs(row.frame_rate - input.frame_rate) <= 100
                /\ response'.value.resolution_width = row.resolution_width
                /\ response'.value.resolution_height = row.resolution_height
                /\ response'.value.frame_rate = row.frame_rate
      ]_vars

\* C25 witness: a project created with frame_rate 23.976 at 1280 x 720 is
\* stored and returned with frame_rate 23.98 at 1280 x 720.
C25_Witness ==
    /\ response.op = "createProject" /\ response.ok
    /\ response.input.frame_rate = 239760
    /\ response.value.frame_rate = 239800
    /\ projects[response.value.id].frame_rate = 239800
    /\ projects[response.value.id].resolution_width = 1280
    /\ projects[response.value.id].resolution_height = 720

\* C30: createProject stores and returns the description as supplied when it
\* is a string (the empty string included) and null when it is absent or null,
\* which is what updateProject stores for the same description.
C30_DescriptionAsSupplied ==
    [][ /\ ProjectCreated =>
              LET supplied == IF Nullish(response'.input, "description") THEN Null
                              ELSE response'.input.description
              IN  /\ projects'[response'.value.id].description = supplied
                  /\ response'.value.description = supplied
        /\ (ProjectUpdated /\ Has(response'.input, "description")) =>
              projects'[response'.input.id].description = response'.input.description
      ]_vars

(***************************************************************************)
(* Items: timeline items are created with and without their optional       *)
(* fields, edited, and listed; some requests carry values out of range.    *)
(***************************************************************************)
\* The fields of the createTimelineItem requests besides the required ones:
\* none; all optional fields null; zeros; values; and five that are out of
\* range (the last two override required fields).
NewItemFields ==
    {<<>>,
     [media_start_offset |-> 5000, volume |-> Null, opacity |-> Null, position_x |-> Null,
      position_y |-> Null, scale |-> Null, rotation |-> Null],
     [volume |-> Some(0), opacity |-> Some(0), position_x |-> Some(0),
      position_y |-> Some(0), rotation |-> Some(0)],
     [volume |-> Some(8000), opacity |-> Some(10000), position_x |-> Some(-2002500),
      scale |-> Some(15000), rotation |-> Some(450000)],
     [volume |-> Some(15000)],
     [opacity |-> Some(-100)],
     [media_start_offset |-> -10000],
     [track_number |-> -1],
     [start_time |-> -10000]}

NewItemInput(p, fields) ==
    LET required == ItemInput(p, 1, 0, 100000)
    IN  [f \in DOMAIN required \cup DOMAIN fields |->
            IF f \in DOMAIN fields THEN fields[f] ELSE required[f]]

NewItem ==
    \E p \in ProjectSerials, fields \in NewItemFields :
        createTimelineItemProcedure(NewItemInput(p, fields))

\* The handler called with an input that has not been through the schema and
\* its defaults (as the handler's tests call it): media_start_offset ?? 0.
NewItemUnparsed == \E p \in ProjectSerials : createTimelineItem(ItemInput(p, 1, 0, 100000))

\* The fields of the updateTimelineItem requests: two within the ranges, five
\* out of range.
RangeEdits ==
    {[volume |-> Some(5000), opacity |-> Some(10000)],
     [track_number |-> 2, start_time |-> 10000, media_start_offset |-> 10000],
     [volume |-> Some(15000)],
     [opacity |-> Some(-100)],
     [media_start_offset |-> -10000],
     [track_number |-> -1],
     [start_time |-> -10000]}

RangeEdit == \E e \in RangeEdits : updateTimelineItemProcedure(WithId(1, e))

NextItems ==
    \/ CreateUser
    \/ ArrangeProject
    \/ ArrangeMediaAsset
    \/ NewItem
    \/ NewItemUnparsed
    \/ RangeEdit
    \/ ListTimeline

SpecItems == Init /\ [][NextItems]_vars

\* C23: of a created timeline item, each optional field is stored and returned
\* as null exactly when the input has it absent or null (a 0 stays 0), and
\* media_start_offset is 0 when the input has none; a getTimelineItemsByProject
\* that follows the create, on a project with no other item, returns exactly
\* the item the create returned.
C23_OptionalFieldsAndDefaults ==
    [][ /\ (Served("createTimelineItem") /\ response'.ok) =>
              LET input == response'.input
                  row == timelineItems'[response'.value.id]
              IN  /\ \A f \in TimelineItemNullable :
                         /\ (row[f] = Null) <=> Nullish(input, f)
                         /\ (response'.value[f] = Null) <=> Nullish(input, f)
                         /\ (Has(input, f) /\ input[f] = Some(0)) =>
                                row[f] = Some(0) /\ response'.value[f] = Some(0)
                  /\ ~Has(input, "media_start_offset") =>
                         row.media_start_offset = 0 /\ response'.value.media_start_offset = 0
        /\ ( /\ response.op = "createTimelineItem" /\ response.ok
             /\ Served("getTimelineItemsByProject")
             /\ response'.input.project_id = response.input.project_id
             /\ ItemsOfProject(response.input.project_id) = {response.value.id} ) =>
              response'.ok /\ response'.value.rows = <<response.value>>
      ]_vars

\* C23 witness: an item was created from an input with zeros for volume,
\* opacity, position and rotation and with no scale and no media_start_offset,
\* and the list of its project is that item alone, with the zeros, a null scale
\* and media_start_offset 0.
C23_Witness ==
    /\ response.op = "getTimelineItemsByProject" /\ response.ok
    /\ Len(response.value.rows) = 1
    /\ response.value.rows[1].volume = Some(0)
    /\ response.value.rows[1].rotation = Some(0)
    /\ response.value.rows[1].scale = Null
    /\ response.value.rows[1].media_start_offset = 0
    /\ Cardinality(DOMAIN timelineItems) = 2

\* A request field outside its range.
OutOfRange(input) ==
    \/ Has(input, "track_number") /\ input.track_number < 0
    \/ Has(input, "start_time") /\ input.start_time < 0
    \/ Has(input, "media_start_offset") /\ input.media_start_offset < 0
    \/ \E f \in {"volume", "opacity"} :
           /\ Has(input, f) /\ input[f] # Null
           /\ input[f][1] < 0 \/ input[f][1] > 10000

\* C24: every stored timeline item has track_number, start_time and
\* media_start_offset >= 0, and volume and opacity null or within [0, 1]; a
\* create or update request with a value outside these ranges is rejected and
\* changes nothing.
C24_ItemRanges ==
    /\ [](\A i \in DOMAIN timelineItems :
              /\ timelineItems[i].track_number >= 0
              /\ timelineItems[i].start_time >= 0
              /\ timelineItems[i].media_start_offset >= 0
              /\ \A f \in {"volume", "opacity"} :
                     \/ timelineItems[i][f] = Null
                     \/ timelineItems[i][f][1] >= 0 /\ timelineItems[i][f][1] <= 10000)
    /\ [][ ( /\ Served("createTimelineItem") \/ Served("updateTimelineItem")
             /\ OutOfRange(response'.input) ) =>
               /\ ~response'.ok /\ response'.error = "BAD_REQUEST"
               /\ UNCHANGED store
         ]_vars

\* C24 witness: an update of item 1 to volume 1.5 has been rejected, after an
\* update that set its volume to 0.5 and next to a second item.
C24_Witness ==
    /\ response.op = "updateTimelineItem" /\ ~response.ok
    /\ response.error = "BAD_REQUEST"
    /\ Has(response.input, "volume") /\ response.input.volume = Some(15000)
    /\ DOMAIN timelineItems = {1, 2}
    /\ timelineItems[1].volume = Some(5000)

\* C26: deleteMediaAsset runs its existence check, then its delete of the
\* timeline items of the asset, then its delete of the asset row; when it
\* deletes the asset row, no timeline item references the asset.
C26_ItemsDeletedBeforeAsset ==
    [][ LET pc == inflight.deleteMediaAsset.pc
            next == inflight'.deleteMediaAsset.pc
        IN  /\ next # pc =>
                   <<pc, next>> \in {<<"idle", "selectAsset">>, <<"done", "selectAsset">>,
                                     <<"selectAsset", "deleteItems">>, <<"selectAsset", "done">>,
                                     <<"deleteItems", "deleteAsset">>, <<"deleteItems", "done">>,
                                     <<"deleteAsset", "done">>}
            /\ (pc = "deleteAsset" /\ inflight'.deleteMediaAsset.result = "ok") =>
                   ItemsOfAsset(inflight.deleteMediaAsset.input.id) = {}
      ]_vars

(***************************************************************************)
(* Every kind of request: creates, updates and deletes of the projects,    *)
(* the media assets and the timeline items.                                *)
(***************************************************************************)
ArchiveProject ==
    \E id \in ProjectIds : updateProjectProcedure([id |-> id, status |-> "archived"])

RaiseItem ==
    \E id \in ItemIds : updateTimelineItemProcedure([id |-> id, track_number |-> 1])

NextIntegrity ==
    \/ CreateUser
    \/ CreateProject
    \/ CreateMediaAsset
    \/ CreateTimelineItem
    \/ ArchiveProject
    \/ RaiseItem
    \/ DeleteProject
    \/ DeleteMediaAsset
    \/ DeleteTimelineItem

SpecIntegrity == Init /\ [][NextIntegrity]_vars

\* C27: every timeline item's project_id and media_asset_id, and every
\* project's and media asset's user_id, is the id of a stored row.
C27_ReferentialIntegrity ==
    /\ \A i \in DOMAIN timelineItems :
           /\ timelineItems[i].project_id \in DOMAIN projects
           /\ timelineItems[i].media_asset_id \in DOMAIN mediaAssets
    /\ \A p \in DOMAIN projects : projects[p].user_id \in DOMAIN users
    /\ \A a \in DOMAIN mediaAssets : mediaAssets[a].user_id \in DOMAIN users

\* C27 witness: media asset 1 has been deleted with its timeline item, and the
\* item of media asset 2, raised to track 1, is left in an archived project.
C27_Witness ==
    /\ response.op = "deleteMediaAsset" /\ response.ok /\ response.input.id = 1
    /\ DOMAIN mediaAssets = {2}
    /\ serial.timeline_items = 3 /\ Cardinality(DOMAIN timelineItems) = 1
    /\ \A i \in DOMAIN timelineItems :
           /\ timelineItems[i].media_asset_id = 2
           /\ timelineItems[i].track_number = 1
           /\ projects[timelineItems[i].project_id].status = "archived"

(***************************************************************************)
(* An update of a project, statement by statement, next to deletes of the  *)
(* projects (deleteProject is one statement).                              *)
(***************************************************************************)
UpdateProjectBegin ==
    /\ ~Running("updateProject")
    /\ \E id \in ProjectSerials, title \in {"Recut"} :
           inflight' = [inflight EXCEPT !.updateProject =
                           [pc |-> "selectProject", input |-> [id |-> id, title |-> title],
                            result |-> "", removed |-> {}]]
    /\ UNCHANGED <<store, now, response>>

UpdateProjectSelect ==
    /\ inflight.updateProject.pc = "selectProject"
    /\ IF inflight.updateProject.input.id \notin DOMAIN projects
       THEN Finish("updateProject", "Project not found", NoValue)
       ELSE Goto("updateProject", "update")
    /\ UNCHANGED <<store, now>>

\* UPDATE projects SET ... WHERE id = id RETURNING, and the return.  With no
\* row of that id the result is empty, project is undefined, and reading
\* project.duration throws a TypeError.
UpdateProjectUpdate ==
    /\ inflight.updateProject.pc = "update"
    /\ LET input == inflight.updateProject.input
           updateFields == ProjectUpdateFields(input)
       IN  IF \E f \in DOMAIN updateFields : ~ProjectFits(f, updateFields[f])
           THEN /\ Finish("updateProject", "numeric field overflow", NoValue)
                /\ projects' = projects
           ELSE IF input.id \notin DOMAIN projects
           THEN /\ Finish("updateProject", "TypeError", NoValue)
                /\ projects' = projects
           ELSE LET row == SetProject(projects[input.id], updateFields)
                IN  /\ projects' = [projects EXCEPT ![input.id] = row]
                    /\ Finish("updateProject", "ok", DurationReturned(row))
    /\ UNCHANGED <<users, mediaAssets, timelineItems, serial, now>>

NextRaceProject ==
    \/ CreateUser
    \/ ArrangeProject
    \/ DeleteProject
    \/ UpdateProjectBegin
    \/ UpdateProjectSelect
    \/ UpdateProjectUpdate

SpecRaceProject == Init /\ [][NextRaceProject]_vars

\* C28: an updateProject whose project is deleted between its existence check
\* and its UPDATE fails with the not-found error, and with no other; it
\* returns no project and the project is not stored again.
C28_UpdateOfDeletedProjectNotFound ==
    [][ ( /\ inflight.updateProject.pc = "update"
          /\ inflight'.updateProject.pc = "done"
          /\ inflight.updateProject.input.id \notin DOMAIN projects ) =>
            /\ inflight'.updateProject.result = "Project not found"
            /\ ~response'.ok /\ response'.error = "Project not found"
            /\ projects' = projects
      ]_vars

(***************************************************************************)
(* Client sessions: each has a project open in its timeline editor and     *)
(* adds timeline items through handleAddTimelineItem.  The server runs one *)
(* createTimelineItem and one updateProject at a time, statement by        *)
(* statement, and a response is delivered to the session that awaits it    *)
(* before the next step of the server or of another session.               *)
(***************************************************************************)
EndTimes == {50000, 100000}

Session(s) == inflight.handleAddTimelineItem[s]
Delivered == inflight.createTimelineItem.pc # "done" /\ inflight.updateProject.pc # "done"

\* The largest number of a non-empty set: Math.max(...)
MathMax(S) == CHOOSE x \in S : \A y \in S : y <= x

\* The add-item form: the defaults of addItemFormData with the media asset and
\* the end time the user chose.
AddItemFormData(p, a, end) ==
    [project_id |-> p, media_asset_id |-> a, track_number |-> 0, start_time |-> 0,
     end_time |-> end, media_start_offset |-> 0, volume |-> Some(10000),
     opacity |-> Some(10000), position_x |-> Some(0), position_y |-> Some(0),
     scale |-> Some(10000), rotation |-> Some(0)]

\* loadProjects and handleProjectSelect: the session holds the project as
\* getProjectsByUser returned it.
OpenProject ==
    /\ 1 \in DOMAIN projects
    /\ \E s \in Sessions :
           /\ Session(s).pc = "closed"
           /\ inflight' = [inflight EXCEPT
                  !.handleAddTimelineItem[s].pc = "opened",
                  !.handleAddTimelineItem[s].project = Some(DurationReturned(projects[1]))]
    /\ UNCHANGED <<store, now, response>>

\* loadTimelineItems: the session holds the items getTimelineItemsByProject
\* returned (their order plays no part in handleAddTimelineItem).
LoadTimelineItems ==
    /\ \E s \in Sessions :
           /\ Session(s).pc = "opened"
           /\ LET ids == {i \in DOMAIN timelineItems :
                              /\ timelineItems[i].media_asset_id \in DOMAIN mediaAssets
                              /\ timelineItems[i].project_id = Session(s).project[1].id}
              IN  inflight' = [inflight EXCEPT
                      !.handleAddTimelineItem[s].pc = "ready",
                      !.handleAddTimelineItem[s].timelineItems =
                          {TimelineItemReturned(timelineItems[i]) : i \in ids}]
    /\ UNCHANGED <<store, now, response>>

\* handleAddTimelineItem up to its first await: trpc.createTimelineItem.mutate
AddItemSubmit ==
    /\ ~Running("createTimelineItem")
    /\ \E s \in Sessions, end \in EndTimes :
           LET form == AddItemFormData(Session(s).project[1].id, 1, end)
           IN  /\ Session(s).pc = "ready"
               /\ createTimelineItemInputSchema(form) = TRUE
               /\ inflight' = [inflight EXCEPT
                      !.handleAddTimelineItem[s].pc = "createTimelineItem",
                      !.createTimelineItem =
                          [pc |-> "selectProject", input |-> ParseCreateTimelineItem(form),
                           result |-> "", removed |-> {}]]
    /\ UNCHANGED <<store, now, response>>

\* The createTimelineItem request resolves with the new item, or rejects and
\* the handler's catch logs the error.
AddItemCreated ==
    /\ inflight.createTimelineItem.pc = "done"
    /\ \E s \in Sessions :
           /\ Session(s).pc = "createTimelineItem"
           /\ inflight' = [inflight EXCEPT
                  !.createTimelineItem = Idle,
                  !.handleAddTimelineItem[s].pc = IF response.ok THEN "added" ELSE "ready",
                  !.handleAddTimelineItem[s].newItem =
                      IF response.ok THEN response.value ELSE NoValue]
    /\ UNCHANGED <<store, now, response>>

\* The item joins the local list; maxEndTime is the largest end time of the
\* list the handler was called with and of the new item; the project's duration
\* is updated if the session's project prop has none or a smaller one.
AddItemDuration ==
    /\ \E s \in Sessions :
           LET project == Session(s).project[1]
               newItem == Session(s).newItem
               maxEndTime == MathMax({item.end_time : item \in Session(s).timelineItems}
                                         \cup {newItem.end_time})
               update == [id |-> project.id, duration |-> Some(maxEndTime)]
               needed == \/ project.duration \in {Null, Some(0)}
                         \/ maxEndTime > project.duration[1]
           IN  /\ Session(s).pc = "added"
               /\ IF needed /\ updateProjectInputSchema(update)
                  THEN /\ ~Running("updateProject")
                       /\ inflight' = [inflight EXCEPT
                              !.handleAddTimelineItem[s].pc = "updateProject",
                              !.handleAddTimelineItem[s].timelineItems = @ \cup {newItem},
                              !.updateProject =
                                  [pc |-> "selectProject", input |-> update,
                                   result |-> "", removed |-> {}]]
                  \* no update, or one the input schema rejects (the catch logs it)
                  ELSE inflight' = [inflight EXCEPT
                              !.handleAddTimelineItem[s].pc = "ready",
                              !.handleAddTimelineItem[s].timelineItems = @ \cup {newItem},
                              !.handleAddTimelineItem[s].newItem = NoValue]
    /\ UNCHANGED <<store, now, response>>

\* The updateProject request resolves and onProjectUpdated hands the session
\* the updated project, or it rejects and the handler's catch logs the error.
AddItemUpdated ==
    /\ inflight.updateProject.pc = "done"
    /\ \E s \in Sessions :
           /\ Session(s).pc = "updateProject"
           /\ inflight' = [inflight EXCEPT
                  !.updateProject = Idle,
                  !.handleAddTimelineItem[s].pc = "ready",
                  !.handleAddTimelineItem[s].newItem = NoValue,
                  !.handleAddTimelineItem[s].project =
                      IF response.ok THEN Some(response.value) ELSE @]
    /\ UNCHANGED <<store, now, response>>

NextSessions ==
    \/ AddItemCreated
    \/ AddItemUpdated
    \/ Delivered /\ CreateUser
    \/ Delivered /\ ArrangeProject
    \/ Delivered /\ ArrangeMediaAsset
    \/ Delivered /\ OpenProject
    \/ Delivered /\ LoadTimelineItems
    \/ Delivered /\ AddItemSubmit
    \/ Delivered /\ CreateTimelineItemSelectProject
    \/ Delivered /\ CreateTimelineItemSelectAsset
    \/ Delivered /\ CreateTimelineItemInsert
    \/ Delivered /\ AddItemDuration
    \/ Delivered /\ UpdateProjectSelect
    \/ Delivered /\ UpdateProjectUpdate

SpecSessions == Init /\ [][NextSessions]_vars

\* No session is inside handleAddTimelineItem and the server runs no request.
AllCompleted ==
    /\ \A s \in Sessions : Session(s).pc \in {"closed", "opened", "ready"}
    /\ ~Running("createTimelineItem") /\ ~Running("updateProject")

\* C29: once every handleAddTimelineItem of every session has completed, the
\* stored duration of the project is non-null and at least the end_time of
\* every timeline item added to it.
C29_DurationCoversAddedItems ==
    AllCompleted =>
        \A i \in DOMAIN timelineItems :
            LET p == timelineItems[i].project_id
            IN  /\ projects[p].duration # Null
                /\ projects[p].duration[1] >= timelineItems[i].end_time

====
